---- MODULE Spec2Model ----
(***************************************************************************)
(* Sales budget / rolling forecast backend (Django + DRF).                 *)
(*                                                                         *)
(* The database tables are sets of rows.  Every ORM statement runs in      *)
(* autocommit mode (no transaction.atomic / select_for_update anywhere in  *)
(* the sources), so a handler that issues several statements is several    *)
(* steps, and the statements of concurrent requests interleave.            *)
(*                                                                         *)
(* Decimal columns are fixed-point integers: money and quantities in       *)
(* hundredths (decimal_places=2), percentages in hundredths of a percent.  *)
(***************************************************************************)
EXTENDS Integers, FiniteSets, Sequences, TLC

VARIABLES
    fc,        \* table rolling_forecast: set of rows
    fcNextId,  \* next primary key of rolling_forecast
    sb,        \* table sales_budget: set of rows
    sbNextId,  \* next primary key of sales_budget
    req,       \* req[p]: the request worker p is serving and its position,
               \* or the response it is about to return
    cache,     \* the Django cache: a set of [key, value] entries
    usr,       \* table users: usr[u] is the row of user u
    kpi,       \* table kpi_metrics: set of rows
    kpiNextId  \* next primary key of kpi_metrics

vars == <<fc, fcNextId, sb, sbNextId, req, cache, usr, kpi, kpiNextId>>

(* ------------------------------ bounds --------------------------------- *)

MaxFcId == 3         \* forecast rows ever inserted
MaxSbId == 2         \* highest budget primary key a request may start from or name
MaxKpiId == 4        \* rows of kpi_metrics ever inserted

\* Request workers: two requests can be in flight at once.
Procs == {"w1", "w2"}

NULL == "null"

(* ------------------------------ users ---------------------------------- *)

Roles == {"admin", "manager", "salesperson", "viewer"}

\* One user per role, named by the role the user starts with; none of them
\* is a superuser.
Users == Roles

\* User.role, as stored.
RoleOf(u) == usr[u].role

is_superuser(u) == FALSE

is_admin(u) == RoleOf(u) = "admin" \/ is_superuser(u)

\* Every user may manage users.
EveryoneManages(u) == TRUE

can_manage_users(u) == RoleOf(u) \in {"admin", "manager"}

(* --------------------------- reference data ---------------------------- *)

Customers == {"c1"}

Items == {"i1", "i2"}

ThisYear == 2026

\* Customer.salesperson of the only customer.
CustomerSalesperson(c) == "salesperson"

Cell(c, i, y, m) == [customer |-> c, item |-> i, year |-> y, month |-> m]

\* The choices of the month field, and the fields a ModelSerializer derives
\* from the model: month is a choice field, year a non-negative integer.
MonthChoices == 1..12

FieldsValid(c) == c.month \in MonthChoices /\ c.year >= 0

\* The detail views' get_queryset: salesperson and viewer see only the rows
\* assigned to them or to their customers.
Visible(u, r) ==
    \/ RoleOf(u) \notin {"salesperson", "viewer"}
    \/ r.salesperson = u
    \/ CustomerSalesperson(r.cell.customer) = u

(* --------------------------- decimal helpers --------------------------- *)

\* n / d rounded to an integer, ties to even (decimal.ROUND_HALF_EVEN, the
\* rounding Django applies when it stores a Decimal in a DecimalField).
RoundHalfEven(n, d) ==
    LET q == n \div d
        r == n % d
    IN  IF 2 * r < d THEN q
        ELSE IF 2 * r > d THEN q + 1
        ELSE IF q % 2 = 0 THEN q ELSE q + 1

\* Overwrite the fields of row r that patch names.
Patched(r, patch) ==
    [f \in DOMAIN r |-> IF f \in DOMAIN patch THEN patch[f] ELSE r[f]]

Idle == [pc |-> "idle"]

\* The response of operation o requested by user u on target t (a cell, a
\* primary key, a set of primary keys): its result, and the count that the
\* batch endpoints report.
Response(o, res, u, t, n) ==
    [pc |-> "done", op |-> o, result |-> res, user |-> u, target |-> t,
     count |-> n]

IsIdle(p) == req[p].pc = "idle"

(* ------------------------------- cache --------------------------------- *)

\* str(None) in the f-strings that build the cache keys.
None == "None"

\* A cache key f'{name}_{year}_{a}_{b}'.
CacheKey(name, year, a, b) == [name |-> name, year |-> year, a |-> a, b |-> b]

\* cache.get(key): the cached values under key (none, or one).
CacheGet(key) == {e.value : e \in {x \in cache : x.key = key}}

\* cache.set(key, value)
CacheSet(key, value) ==
    {e \in cache : e.key # key} \cup {[key |-> key, value |-> value]}

\* cache.delete_many(keys)
CacheDeleteMany(keys) == {e \in cache : e.key \notin keys}

\* An invalidation of the no-filter keys and the fully-dimensioned key only.
SbInvalidatedKeysTwo(cell) ==
    { CacheKey("monthly_totals", cell.year, None, None),
      CacheKey("monthly_totals", cell.year, cell.customer, cell.item),
      CacheKey("annual_summary", cell.year, None, None) }

\* The keys invalidate_sales_budget_cache deletes after a save or delete of
\* a budget instance of the given cell (its 'sales_dashboard_data' key is
\* filled by no operation modelled here).
SbInvalidatedKeys(cell) ==
    { CacheKey("monthly_totals", cell.year, c, i) :
          c \in {None, cell.customer}, i \in {None, cell.item} }
        \cup {CacheKey("annual_summary", cell.year, None, None)}

\* The keys invalidate_forecast_cache deletes after a save or delete of a
\* forecast instance of the given cell.
FcInvalidatedKeys(cell) ==
    { CacheKey("variance_summary", cell.year, c, i) :
          c \in {None, cell.customer}, i \in {None, cell.item} }
        \cup { CacheKey("monthly_forecast_totals", cell.year, t, None) :
                   t \in {"optimistic", "realistic", "pessimistic"} }

(***************************************************************************)
(*                         ROLLING FORECAST                                *)
(***************************************************************************)

\* Cells that forecast requests name.
FcCells == {Cell("c1", i, ThisYear, 1) : i \in Items}

\* Payloads of a forecast create: forecasted_quantity, forecasted_amount,
\* budget_quantity, budget_amount.
FcData ==
    { [fq |-> 100, fa |-> 9500, bq |-> 100, ba |-> 10000],
      [fq |-> 200, fa |-> 15000, bq |-> 0, ba |-> 0],
      [fq |-> 100, fa |-> -100, bq |-> 100, ba |-> 10000] }

FcValidData == {d \in FcData : d.fq >= 0 /\ d.fa >= 0}

\* One valid payload and the one the table's CHECK constraint refuses.
FcData1 == {d \in FcData : d.fq = 100}

\* Payloads of a forecast update (PATCH through RollingForecastSerializer):
\* is_latest and version are writable fields of that serializer.
FcPatches ==
    { [fa |-> -100], [is_latest |-> TRUE], [is_latest |-> FALSE],
      [version |-> 1], [status |-> "approved"] }

CellRows(c) == {r \in fc : r.cell = c}

\* variancePercentage in hundredths of a percent.
VariancePercentage(variance, budget) ==
    IF budget > 0 THEN RoundHalfEven(variance * 10000, budget) ELSE 0

\* A save that leaves the variance fields as they are.
SaveVariancesStale(inst) == inst

\* The variance part of RollingForecast.save.
SaveVariances(inst) ==
    [inst EXCEPT !.qv = inst.fq - inst.bq,
                 !.av = inst.fa - inst.ba,
                 !.qvp = VariancePercentage(inst.fq - inst.bq, inst.bq),
                 !.avp = VariancePercentage(inst.fa - inst.ba, inst.ba)]

\* A new model instance built by RollingForecastCreateSerializer: the fields
\* it does not list keep the model defaults.
FcNewInstance(c, d) ==
    [id |-> NULL, cell |-> c, version |-> 1, is_latest |-> TRUE,
     status |-> "draft", fq |-> d.fq, fa |-> d.fa, bq |-> d.bq, ba |-> d.ba,
     qv |-> 0, av |-> 0, qvp |-> 0, avp |-> 0, salesperson |-> NULL,
     approved_by |-> NULL, approved_at |-> NULL]

\* version = existing_count + 1
FcNewVersionStale(existing_count) == existing_count

FcNewVersion(existing_count) == existing_count + 1

\* The table constraints of rolling_forecast, for row r written over the
\* other rows `others`.
FcConstraints(r, others) ==
    /\ \A o \in others : ~(o.cell = r.cell /\ o.version = r.version)
    /\ r.fq >= 0
    /\ r.fa >= 0

\* RollingForecastSerializer.validate, on the fields a patch carries.
FcValidPatch(patch) ==
    /\ "fa" \in DOMAIN patch => patch.fa >= 0
    /\ "fq" \in DOMAIN patch => patch.fq >= 0

\* POST /rolling-forecast/: is_valid of RollingForecastCreateSerializer, then
\* the first part of RollingForecast.save: variances, and the count of the
\* rows of the cell.
FcCreate(p, u, c, d) ==
    /\ IsIdle(p)
    /\ fcNextId <= MaxFcId
    /\ LET count == Cardinality(CellRows(c))
           inst == SaveVariances(FcNewInstance(c, d))
       IN  req' = [req EXCEPT ![p] =
                      IF ~FieldsValid(c)
                      THEN Response("fc_create", "validation_error", u, c, 0)
                      ELSE IF count > 0
                      THEN [pc |-> "fc_relatch", user |-> u,
                            inst |-> [inst EXCEPT !.version = FcNewVersion(count)]]
                      ELSE [pc |-> "fc_insert", user |-> u, inst |-> inst]]
    /\ UNCHANGED <<fc, fcNextId, sb, sbNextId, cache, usr, kpi, kpiNextId>>

\* ...filter(cell).update(is_latest=False)
FcRelatchRows(rows, c) ==
    {IF r.cell = c THEN [r EXCEPT !.is_latest = FALSE] ELSE r : r \in rows}

FcRelatch(p) ==
    /\ req[p].pc = "fc_relatch"
    /\ fc' = FcRelatchRows(fc, req[p].inst.cell)
    /\ req' = [req EXCEPT ![p].pc = "fc_insert"]
    /\ UNCHANGED <<fcNextId, sb, sbNextId, cache, usr, kpi, kpiNextId>>

\* super().save(): the INSERT.
FcInsert(p) ==
    /\ req[p].pc = "fc_insert"
    /\ LET row == [req[p].inst EXCEPT !.id = fcNextId]
           ok == FcConstraints(row, fc)
       IN  /\ fc' = IF ok THEN fc \cup {row} ELSE fc
           /\ fcNextId' = IF ok THEN fcNextId + 1 ELSE fcNextId
           /\ cache' = IF ok THEN CacheDeleteMany(FcInvalidatedKeys(row.cell)) ELSE cache
           /\ req' = [req EXCEPT ![p] =
                         Response("fc_create",
                                  IF ok THEN "ok" ELSE "integrity_error",
                                  req[p].user, row.cell, 0)]
    /\ UNCHANGED <<sb, sbNextId, usr, kpi, kpiNextId>>

\* perform_update / perform_destroy of the forecast detail view: approved
\* entries are for admins only.
FcMayModifyAnyone(u, r) == TRUE

FcMayModify(u, r) == ~(r.status = "approved" /\ ~is_admin(u))

\* A save of an existing row that runs the version bookkeeping of a create.
FcRowsAfterSaveRelatched(rows, row) ==
    FcRelatchRows({r \in rows : r.id # row.id}, row.cell) \cup {row}

\* The table after save() of an instance with a primary key: the version
\* branch is skipped (self.pk is not None) and the row is written by pk.
FcRowsAfterSave(rows, row) == {r \in rows : r.id # row.id} \cup {row}

\* PUT/PATCH /rolling-forecast/<pk>/: get_object, is_valid, perform_update's
\* permission check.  The write is FcUpdateSave.
FcUpdateCheck(p, u, id, patch) ==
    /\ IsIdle(p)
    /\ LET rows == {r \in fc : r.id = id /\ Visible(u, r)}
           r == CHOOSE x \in rows : TRUE
       IN  req' = [req EXCEPT ![p] =
                      IF rows = {}
                      THEN Response("fc_update", "not_found", u, id, 0)
                      ELSE IF ~FcValidPatch(patch)
                      THEN Response("fc_update", "validation_error", u, id, 0)
                      ELSE IF ~FcMayModify(u, r)
                      THEN Response("fc_update", "permission_denied", u, id, 0)
                      ELSE [pc |-> "fc_save", user |-> u,
                            inst |-> Patched(r, patch)]]
    /\ UNCHANGED <<fc, fcNextId, sb, sbNextId, cache, usr, kpi, kpiNextId>>

\* serializer.save() -> RollingForecast.save with pk set: variances again, no
\* version bookkeeping, every column written (UPDATE by pk, INSERT when the
\* row is gone).
FcUpdateSave(p) ==
    /\ req[p].pc = "fc_save"
    /\ LET row == SaveVariances(req[p].inst)
           others == {r \in fc : r.id # row.id}
           ok == FcConstraints(row, others)
       IN  /\ fc' = IF ok THEN FcRowsAfterSave(fc, row) ELSE fc
           /\ cache' = IF ok THEN CacheDeleteMany(FcInvalidatedKeys(row.cell)) ELSE cache
           /\ req' = [req EXCEPT ![p] =
                         Response("fc_update",
                                  IF ok THEN "ok" ELSE "integrity_error",
                                  req[p].user, row.id, 0)]
    /\ UNCHANGED <<fcNextId, sb, sbNextId, usr, kpi, kpiNextId>>

\* RollingForecast.update_from_budget on the entry id, loaded by the caller,
\* with the budget entry sid: budget_quantity and budget_amount are taken
\* over, then save() (FcUpdateSave).
FcUpdateFromBudget(p, id, sid) ==
    /\ IsIdle(p)
    /\ \E r \in fc, b \in sb :
          /\ r.id = id
          /\ b.id = sid
          /\ req' = [req EXCEPT ![p] =
                        [pc |-> "fc_save", user |-> NULL,
                         inst |-> [r EXCEPT !.bq = b.quantity,
                                            !.ba = b.total_amount]]]
    /\ UNCHANGED <<fc, fcNextId, sb, sbNextId, cache, usr, kpi, kpiNextId>>

\* DELETE /rolling-forecast/<pk>/: get_object and perform_destroy's check.
FcDeleteCheck(p, u, id) ==
    /\ IsIdle(p)
    /\ LET rows == {r \in fc : r.id = id /\ Visible(u, r)}
           r == CHOOSE x \in rows : TRUE
       IN  req' = [req EXCEPT ![p] =
                      IF rows = {}
                      THEN Response("fc_delete", "not_found", u, id, 0)
                      ELSE IF ~FcMayModify(u, r)
                      THEN Response("fc_delete", "permission_denied", u, id, 0)
                      ELSE [pc |-> "fc_delete", user |-> u, id |-> id,
                            cell |-> r.cell]]
    /\ UNCHANGED <<fc, fcNextId, sb, sbNextId, cache, usr, kpi, kpiNextId>>

\* instance.delete()
FcDelete(p) ==
    /\ req[p].pc = "fc_delete"
    /\ fc' = {r \in fc : r.id # req[p].id}
    /\ cache' = CacheDeleteMany(FcInvalidatedKeys(req[p].cell))
    /\ req' = [req EXCEPT ![p] =
                  Response("fc_delete", "ok", req[p].user, req[p].id, 0)]
    /\ UNCHANGED <<fcNextId, sb, sbNextId, usr, kpi, kpiNextId>>

\* The rows approve_forecast_entries_view's queryset selects.
FcToApprove(ids) == {r \in fc : r.id \in ids /\ r.status = "submitted"}

\* The row queryset.update(status, approved_by, approved_at) makes of r.
FcApproved(r, u) ==
    [r EXCEPT !.status = "approved", !.approved_by = u, !.approved_at = "now"]

\* POST /rolling-forecast/approve/: one UPDATE statement.
FcApprove(p, u, ids) ==
    /\ IsIdle(p)
    /\ LET hit == IF ids = {} \/ ~can_manage_users(u) THEN {} ELSE FcToApprove(ids)
       IN  /\ fc' = (fc \ hit) \cup {FcApproved(r, u) : r \in hit}
           /\ req' = [req EXCEPT ![p] =
                         IF ids = {}
                         THEN Response("fc_approve", "bad_request", u, ids, 0)
                         ELSE IF ~can_manage_users(u)
                         THEN Response("fc_approve", "forbidden", u, ids, 0)
                         ELSE Response("fc_approve", "ok", u, ids, Cardinality(hit))]
    /\ UNCHANGED <<fcNextId, sb, sbNextId, cache, usr, kpi, kpiNextId>>

\* Sum(field) over a set of rows (0 for the empty set, where the aggregate
\* gives None and the callers write `or 0`).
RECURSIVE SumOf(_, _)
SumOf(rows, field) ==
    IF rows = {} THEN 0
    ELSE LET r == CHOOSE x \in rows : TRUE
         IN  r[field] + SumOf(rows \ {r}, field)

Abs(x) == IF x < 0 THEN 0 - x ELSE x

Max(x, y) == IF x > y THEN x ELSE y

\* accuracy_score of variance_analysis_view, in hundredths, after its
\* round(accuracy_score, 2): max(0, 100 - abs((total_forecast - total_budget)
\* / total_budget * 100)) if total_budget > 0 else 0.
accuracy_scoreUnclamped(total_forecast, total_budget) ==
    IF total_budget > 0
    THEN RoundHalfEven(100 * 100 * total_budget
                           - Abs(total_forecast - total_budget) * 100 * 100,
                       total_budget)
    ELSE 0

accuracy_score(total_forecast, total_budget) ==
    IF total_budget > 0
    THEN RoundHalfEven(Max(0, 100 * 100 * total_budget
                                  - Abs(total_forecast - total_budget) * 100 * 100),
                       total_budget)
    ELSE 0

\* GET /rolling-forecast/variance-analysis/: the cached analysis of the user,
\* or the aggregate over the latest rows the user sees, which is cached.
FcVarianceAnalysis(p, u) ==
    /\ IsIdle(p)
    /\ LET key == CacheKey("forecast_variance", ThisYear, u, u)
           rows == {r \in fc : Visible(u, r) /\ r.cell.year = ThisYear /\ r.is_latest}
           total_forecast == SumOf(rows, "fa")
           total_budget == SumOf(rows, "ba")
           analysis == [total_forecast_amount |-> total_forecast,
                        total_budget_amount |-> total_budget,
                        accuracy_score |-> accuracy_score(total_forecast, total_budget)]
           hit == CacheGet(key)
           answer == IF hit = {} THEN analysis ELSE CHOOSE v \in hit : TRUE
       IN  /\ cache' = IF hit = {} THEN CacheSet(key, analysis) ELSE cache
           /\ req' = [req EXCEPT ![p] =
                         Response("fc_variance_analysis", "ok", u, key, answer)]
    /\ UNCHANGED <<fc, fcNextId, sb, sbNextId, usr, kpi, kpiNextId>>

\* A cache entry times out or is evicted.
CacheExpire(key) ==
    /\ CacheGet(key) # {}
    /\ cache' = CacheDeleteMany({key})
    /\ UNCHANGED <<fc, fcNextId, sb, sbNextId, req, usr, kpi, kpiNextId>>

\* The response goes back to the caller; the worker is free again.
Return(p) ==
    /\ req[p].pc = "done"
    /\ req' = [req EXCEPT ![p] = Idle]
    /\ UNCHANGED <<fc, fcNextId, sb, sbNextId, cache, usr, kpi, kpiNextId>>

(***************************************************************************)
(*                                USERS                                    *)
(***************************************************************************)

Departments == {"d0", "d1"}

\* Payloads of a user update (PATCH through UserSerializer): role and
\* department are writable fields.
UserData ==
    {[role |-> r] : r \in Roles}
        \cup {[department |-> "d1"]}
        \cup {[role |-> r, department |-> "d1"] : r \in Roles}

\* dict.pop(k): the dict without key k.
Popped(d, k) == [f \in DOMAIN d \ {k} |-> d[f]]

\* UserDetailView.get_queryset: admins and managers reach every user, the
\* others only themselves.
UserVisible(u, t) == is_admin(u) \/ RoleOf(u) = "manager" \/ t = u

\* perform_update on the caller's own row: a role in the data is dropped
\* unless the caller is an admin.
PerformUpdateSelf(u, data) ==
    IF "role" \in DOMAIN data /\ ~is_admin(u) THEN Popped(data, "role")
    ELSE data

\* PUT/PATCH /users/<pk>/: get_object, is_valid, perform_update up to
\* serializer.save().
UserUpdateCheck(p, u, t, data) ==
    /\ IsIdle(p)
    /\ req' = [req EXCEPT ![p] =
                  IF ~UserVisible(u, t)
                  THEN Response("user_update", "not_found", u, t, 0)
                  ELSE IF u # t /\ ~can_manage_users(u)
                  THEN Response("user_update", "permission_denied", u, t, 0)
                  ELSE [pc |-> "user_save", user |-> u, target |-> t,
                        admin |-> is_admin(u), superuser |-> is_superuser(u),
                        data |-> data, instance |-> usr[t],
                        validated_data |->
                            IF u = t THEN PerformUpdateSelf(u, data)
                            ELSE data]]
    /\ UNCHANGED <<fc, fcNextId, sb, sbNextId, cache, usr, kpi, kpiNextId>>

\* The role handling of UserSerializer.update on the data that reached it:
\* the data that is written.
UserSerializerUpdate(r, validated_data) ==
    IF "role" \in DOMAIN validated_data
           /\ r.target = r.user /\ ~r.superuser
    THEN Popped(validated_data, "role")
    ELSE validated_data

\* serializer.save() -> UserSerializer.update: a role for another user is
\* for admins only; otherwise the instance is written with the data.
UserUpdateSave(p) ==
    /\ req[p].pc = "user_save"
    /\ LET r == req[p]
           refused == /\ "role" \in DOMAIN r.validated_data
                      /\ ~r.admin
                      /\ r.target # r.user
       IN  /\ usr' = IF refused THEN usr
                     ELSE [usr EXCEPT ![r.target] =
                              Patched(r.instance,
                                      UserSerializerUpdate(r, r.validated_data))]
           /\ req' = [req EXCEPT ![p] =
                         Response("user_update",
                                  IF refused THEN "validation_error" ELSE "ok",
                                  r.user, r.target, 0)]
    /\ UNCHANGED <<fc, fcNextId, sb, sbNextId, cache, kpi, kpiNextId>>

(***************************************************************************)
(*                            SALES BUDGET                                 *)
(***************************************************************************)

MonthsInYear == 12

Statuses == {"draft", "submitted", "approved", "rejected"}

\* Cells that single budget requests name.
SbCells == {Cell("c1", i, ThisYear, 1) : i \in Items}

\* Item.unit_price, in cents.
ItemPrice(i) == IF i = "i1" THEN 3000 ELSE 0

\* Payloads of a budget create: quantity (hundredths), unit_price (cents),
\* discount_percentage (percent).
SbData ==
    { [quantity |-> 150, unit_price |-> 300, discount_percentage |-> 0],
      [quantity |-> 33, unit_price |-> 250, discount_percentage |-> 50],
      [quantity |-> -100, unit_price |-> 300, discount_percentage |-> 0] }

\* Payloads of a budget update (PATCH through SalesBudgetSerializer).
SbDataPatches ==
    { [quantity |-> 33], [quantity |-> -100], [discount_percentage |-> 50],
      [distribution_type |-> "seasonal", seasonal_multiplier |-> 90] }

SbStatusPatches == {[status |-> s] : s \in Statuses}

SbCellPatches == {[cell |-> c] : c \in SbCells}

\* Python Decimals that are not yet rounded to a column's two decimals are
\* integers scaled by Scale (four more decimal digits; Python keeps 28
\* significant digits, which gives the same two-decimal results on the
\* values used here).
Scale == 100 * 100

\* SalesBudget.save's arithmetic on an in-memory quantity qS (hundredths
\* times Scale): gross_amount, discount_amount and total_amount, in cents
\* times Scale.
SbTotal(qS, price, discount) ==
    LET gross_amount == RoundHalfEven(qS * price, 100)
    IN  IF discount > 0
        THEN gross_amount - RoundHalfEven(gross_amount * discount, 100)
        ELSE gross_amount

\* The row SalesBudget.save writes for instance inst whose in-memory quantity
\* is qS: total_amount is derived from the in-memory fields, and the
\* DecimalField columns round what they are given to two decimals.
SbSaved(inst, qS) ==
    [inst EXCEPT !.quantity = RoundHalfEven(qS, Scale),
                 !.total_amount =
                     RoundHalfEven(SbTotal(qS, inst.unit_price,
                                           inst.discount_percentage), Scale)]

\* The table constraints of sales_budget, for row r written over the other
\* rows `others`.
SbConstraintsNoUnique(r, others) ==
    /\ r.quantity >= 0
    /\ r.unit_price >= 0
    /\ r.total_amount >= 0
    /\ r.discount_percentage >= 0 /\ r.discount_percentage <= 100

SbConstraints(r, others) ==
    /\ \A o \in others : o.cell # r.cell
    /\ r.quantity >= 0
    /\ r.unit_price >= 0
    /\ r.total_amount >= 0
    /\ r.discount_percentage >= 0 /\ r.discount_percentage <= 100

\* A new model instance: the fields the caller does not give keep the model
\* defaults.
SbNewInstance(c, d) ==
    [id |-> NULL, cell |-> c, quantity |-> d.quantity,
     unit_price |-> d.unit_price,
     discount_percentage |-> d.discount_percentage, total_amount |-> 0,
     distribution_type |-> "equal", seasonal_multiplier |-> 100,
     status |-> "draft", salesperson |-> NULL, approved_by |-> NULL,
     approved_at |-> NULL]

\* SalesBudgetCreateSerializer.validate: the duplicate check.
SbCreateValid(c) == ~\E r \in sb : r.cell = c

\* POST /sales-budget/: is_valid of SalesBudgetCreateSerializer.
SbCreate(p, u, c, d) ==
    /\ IsIdle(p)
    /\ sbNextId <= MaxSbId
    /\ req' = [req EXCEPT ![p] =
                  IF FieldsValid(c) /\ SbCreateValid(c)
                  THEN [pc |-> "sb_insert", user |-> u,
                        inst |-> SbNewInstance(c, d)]
                  ELSE Response("sb_create", "validation_error", u, c, 0)]
    /\ UNCHANGED <<fc, fcNextId, sb, sbNextId, cache, usr, kpi, kpiNextId>>

\* serializer.save() -> SalesBudget.save: total_amount, then the INSERT.
SbInsert(p) ==
    /\ req[p].pc = "sb_insert"
    /\ LET inst == req[p].inst
           row == [SbSaved(inst, inst.quantity * Scale) EXCEPT !.id = sbNextId]
           ok == SbConstraints(row, sb)
       IN  /\ sb' = IF ok THEN sb \cup {row} ELSE sb
           /\ sbNextId' = IF ok THEN sbNextId + 1 ELSE sbNextId
           /\ cache' = IF ok THEN CacheDeleteMany(SbInvalidatedKeys(row.cell)) ELSE cache
           /\ req' = [req EXCEPT ![p] =
                         Response("sb_create",
                                  IF ok THEN "ok" ELSE "integrity_error",
                                  req[p].user, row.cell, 0)]
    /\ UNCHANGED <<fc, fcNextId, usr, kpi, kpiNextId>>

\* SalesBudgetSerializer.validate, on the fields a patch carries.
SbValidPatch(patch) ==
    /\ "cell" \in DOMAIN patch =>
           /\ patch.cell.year >= ThisYear
           /\ patch.cell.month >= 1 /\ patch.cell.month <= MonthsInYear
    /\ "quantity" \in DOMAIN patch => patch.quantity >= 0
    /\ "unit_price" \in DOMAIN patch => patch.unit_price >= 0
    /\ "discount_percentage" \in DOMAIN patch => patch.discount_percentage <= 100

\* perform_update / perform_destroy: approved entries are for admins only.
MayModifyAnyone(u, r) == TRUE

MayModify(u, r) == ~(r.status = "approved" /\ ~is_admin(u))

\* PUT/PATCH /sales-budget/<pk>/: get_object, is_valid, perform_update's
\* permission check.  The write is SbUpdateSave.
SbUpdateCheck(p, u, id, patch) ==
    /\ IsIdle(p)
    /\ LET rows == {r \in sb : r.id = id /\ Visible(u, r)}
           r == CHOOSE x \in rows : TRUE
       IN  req' = [req EXCEPT ![p] =
                      IF rows = {}
                      THEN Response("sb_update", "not_found", u, id, 0)
                      ELSE IF ~SbValidPatch(patch)
                      THEN Response("sb_update", "validation_error", u, id, 0)
                      ELSE IF ~MayModify(u, r)
                      THEN Response("sb_update", "permission_denied", u, id, 0)
                      ELSE [pc |-> "sb_save", user |-> u,
                            inst |-> Patched(r, patch)]]
    /\ UNCHANGED <<fc, fcNextId, sb, sbNextId, cache, usr, kpi, kpiNextId>>

\* serializer.save() -> SalesBudget.save with pk set: total_amount again,
\* every column written (UPDATE by pk, INSERT when the row is gone).
SbUpdateSave(p) ==
    /\ req[p].pc = "sb_save"
    /\ LET inst == req[p].inst
           row == SbSaved(inst, inst.quantity * Scale)
           others == {r \in sb : r.id # row.id}
           ok == SbConstraints(row, others)
       IN  /\ sb' = IF ok THEN others \cup {row} ELSE sb
           /\ cache' = IF ok THEN CacheDeleteMany(SbInvalidatedKeys(row.cell)) ELSE cache
           /\ req' = [req EXCEPT ![p] =
                         Response("sb_update",
                                  IF ok THEN "ok" ELSE "integrity_error",
                                  req[p].user, row.id, 0)]
    /\ UNCHANGED <<fc, fcNextId, sbNextId, usr, kpi, kpiNextId>>

\* DELETE /sales-budget/<pk>/: get_object and perform_destroy's check.
SbDeleteCheck(p, u, id) ==
    /\ IsIdle(p)
    /\ LET rows == {r \in sb : r.id = id /\ Visible(u, r)}
           r == CHOOSE x \in rows : TRUE
       IN  req' = [req EXCEPT ![p] =
                      IF rows = {}
                      THEN Response("sb_delete", "not_found", u, id, 0)
                      ELSE IF ~MayModify(u, r)
                      THEN Response("sb_delete", "permission_denied", u, id, 0)
                      ELSE [pc |-> "sb_delete", user |-> u, id |-> id,
                            cell |-> r.cell]]
    /\ UNCHANGED <<fc, fcNextId, sb, sbNextId, cache, usr, kpi, kpiNextId>>

\* instance.delete()
SbDelete(p) ==
    /\ req[p].pc = "sb_delete"
    /\ sb' = {r \in sb : r.id # req[p].id}
    /\ cache' = CacheDeleteMany(SbInvalidatedKeys(req[p].cell))
    /\ req' = [req EXCEPT ![p] =
                  Response("sb_delete", "ok", req[p].user, req[p].id, 0)]
    /\ UNCHANGED <<fc, fcNextId, sbNextId, usr, kpi, kpiNextId>>

\* The rows approve_budget_entries_view's queryset selects.
SbToApproveAnyStatus(ids) == {r \in sb : r.id \in ids}

SbToApprove(ids) == {r \in sb : r.id \in ids /\ r.status = "submitted"}

\* The row queryset.update(status, approved_by, approved_at) makes of r.
SbApproved(r, u) ==
    [r EXCEPT !.status = "approved", !.approved_by = u, !.approved_at = "now"]

\* POST /sales-budget/approve/: one UPDATE statement.
SbApprove(p, u, ids) ==
    /\ IsIdle(p)
    /\ LET hit == IF ids = {} \/ ~can_manage_users(u) THEN {} ELSE SbToApprove(ids)
       IN  /\ sb' = (sb \ hit) \cup {SbApproved(r, u) : r \in hit}
           /\ req' = [req EXCEPT ![p] =
                         IF ids = {}
                         THEN Response("sb_approve", "bad_request", u, ids, 0)
                         ELSE IF ~can_manage_users(u)
                         THEN Response("sb_approve", "forbidden", u, ids, 0)
                         ELSE Response("sb_approve", "ok", u, ids, Cardinality(hit))]
    /\ UNCHANGED <<fc, fcNextId, sbNextId, cache, usr, kpi, kpiNextId>>

\* The base a multiplication leaves untouched.
SeasonalBaseUndivided(r) == r.quantity * Scale

\* base_quantity = quantity / seasonal_multiplier if seasonal_multiplier > 0
\* else quantity, in hundredths times Scale.
SeasonalBase(r) ==
    IF r.seasonal_multiplier > 0
    THEN RoundHalfEven(r.quantity * Scale * 100, r.seasonal_multiplier)
    ELSE r.quantity * Scale

\* The row apply_seasonal_distribution saves for the seasonal row r:
\* quantity = base_quantity * seasonal_multiplier, then save().
SeasonalApplied(r) ==
    SbSaved(r, RoundHalfEven(SeasonalBase(r) * r.seasonal_multiplier, 100))

\* SalesBudget.apply_seasonal_distribution on the stored row id.
SbApplySeasonal(p, id) ==
    /\ IsIdle(p)
    /\ \E r \in sb :
           /\ r.id = id
           /\ r.distribution_type = "seasonal"
           /\ LET row == SeasonalApplied(r)
              IN  /\ SbConstraints(row, sb \ {r})
                  /\ sb' = (sb \ {r}) \cup {row}
                  /\ cache' = CacheDeleteMany(SbInvalidatedKeys(row.cell))
    /\ req' = [req EXCEPT ![p] =
                  Response("sb_apply_seasonal", "ok", NULL, id, 0)]
    /\ UNCHANGED <<fc, fcNextId, sbNextId, usr, kpi, kpiNextId>>

\* The aggregate get_annual_summary computes: over the approved entries of
\* the year.
AnnualSummary(year) ==
    LET rows == {r \in sb : r.cell.year = year /\ r.status = "approved"}
    IN  [total_amount |-> SumOf(rows, "total_amount"),
         total_quantity |-> SumOf(rows, "quantity"),
         entry_count |-> Cardinality(rows),
         customer_count |-> Cardinality({r.cell.customer : r \in rows}),
         item_count |-> Cardinality({r.cell.item : r \in rows})]

\* The list get_monthly_totals computes: one element per month that has
\* approved entries of the year, of the customer and of the item when given.
MonthlyTotals(year, customer_id, item_id) ==
    LET rows == {r \in sb : /\ r.cell.year = year
                            /\ r.status = "approved"
                            /\ customer_id # None => r.cell.customer = customer_id
                            /\ item_id # None => r.cell.item = item_id}
    IN  { [month |-> m,
           total_amount |-> SumOf({r \in rows : r.cell.month = m}, "total_amount"),
           total_quantity |-> SumOf({r \in rows : r.cell.month = m}, "quantity")] :
              m \in {r.cell.month : r \in rows} }

\* SalesBudget.get_annual_summary(year): the cached summary, or the computed
\* one, which is cached.
SbGetAnnualSummary(p, year) ==
    /\ IsIdle(p)
    /\ LET key == CacheKey("annual_summary", year, None, None)
           hit == CacheGet(key)
           summary == IF hit = {} THEN AnnualSummary(year) ELSE CHOOSE v \in hit : TRUE
       IN  /\ cache' = IF hit = {} THEN CacheSet(key, summary) ELSE cache
           /\ req' = [req EXCEPT ![p] =
                         Response("sb_annual_summary", "ok", NULL, key, summary)]
    /\ UNCHANGED <<fc, fcNextId, sb, sbNextId, usr, kpi, kpiNextId>>

\* SalesBudget.get_monthly_totals(year, customer_id, item_id): the cached
\* totals, or the computed ones, which are cached.
SbGetMonthlyTotals(p, year, customer_id, item_id) ==
    /\ IsIdle(p)
    /\ LET key == CacheKey("monthly_totals", year, customer_id, item_id)
           hit == CacheGet(key)
           totals == IF hit = {} THEN MonthlyTotals(year, customer_id, item_id)
                     ELSE CHOOSE v \in hit : TRUE
       IN  /\ cache' = IF hit = {} THEN CacheSet(key, totals) ELSE cache
           /\ req' = [req EXCEPT ![p] =
                         Response("sb_monthly_totals", "ok", NULL, key, totals)]
    /\ UNCHANGED <<fc, fcNextId, sb, sbNextId, usr, kpi, kpiNextId>>

\* The seasonal table of bulk_create_budget_view, in hundredths.
SeasonalMultipliers == <<160, 150, 140, 130, 120, 110, 100, 90, 80, 75, 70, 60>>

\* amount_per_item = total_amount / len(items), in cents times Scale.
AmountPerItem(total, items) == RoundHalfEven(total * Scale, Len(items))

\* base_quantity = amount_per_item / item.unit_price if item.unit_price > 0
\* else 0, in hundredths times Scale.
BaseQuantity(amount_per_item, price) ==
    IF price > 0 THEN RoundHalfEven(amount_per_item * 100, price) ELSE 0

\* The instance one iteration of bulk_create_budget_view's loop hands to
\* SalesBudget.objects.create, or the TypeError it ends with.  The seasonal multipliers are
\* Python floats: with a Decimal base_quantity, base_quantity * multiplier
\* raises TypeError; with the int 0 of the unit_price = 0 guard the product is
\* a float, and SalesBudget.save's quantity * unit_price raises TypeError.
BulkInstance(b, k) ==
    LET n == Len(b.items)
        month == (k \div n) + 1
        item == b.items[(k % n) + 1]
        price == ItemPrice(item)
        base_quantity == BaseQuantity(AmountPerItem(b.total_amount, b.items), price)
    IN  IF b.distribution_type = "seasonal"
        THEN [type_error |-> TRUE]
        ELSE [type_error |-> FALSE,
              inst |-> [SbNewInstance(Cell(b.customer, item, b.year, month),
                                      [quantity |-> 0, unit_price |-> price,
                                       discount_percentage |-> 0])
                        EXCEPT !.distribution_type = b.distribution_type,
                               !.seasonal_multiplier = 100,
                               !.salesperson = CustomerSalesperson(b.customer)],
              qS |-> base_quantity]

\* The number of iterations of the loop: for month in range(1, 13), for item
\* in items.
BulkLengthOneMonth(items) == Len(items)

BulkLength(items) == MonthsInYear * Len(items)

\* POST /sales-budget/bulk-create/ with a body that also carries per-month
\* quantities (<<>> when it carries none): is_valid of
\* SalesBudgetBulkCreateSerializer (items has min_length 1), whose
\* validated_data b holds the declared fields only.  The loop's iterations
\* are SbBulkInsert.
SbBulkCreateWith(p, u, items, total, dist, quantities) ==
    /\ IsIdle(p)
    /\ sbNextId <= MaxSbId
    /\ req' = [req EXCEPT ![p] =
                  IF Len(items) = 0
                  THEN Response("sb_bulk_create", "validation_error", u, items, 0)
                  ELSE [pc |-> "sb_bulk", user |-> u, k |-> 0,
                        data |-> [quantities |-> quantities],
                        b |-> [customer |-> "c1", items |-> items,
                               year |-> ThisYear, total_amount |-> total,
                               distribution_type |-> dist]]]
    /\ UNCHANGED <<fc, fcNextId, sb, sbNextId, cache, usr, kpi, kpiNextId>>

\* POST /sales-budget/bulk-create/ with the declared fields only.
SbBulkCreate(p, u, items, total, dist) ==
    SbBulkCreateWith(p, u, items, total, dist, <<>>)

\* One iteration of the loop: SalesBudget.objects.create (save, INSERT).  An
\* exception ends the request; the rows inserted before it stay.
SbBulkInsert(p) ==
    /\ req[p].pc = "sb_bulk"
    /\ LET b == req[p].b
           k == req[p].k
           made == BulkInstance(b, k)
           row == [SbSaved(made.inst, made.qS) EXCEPT !.id = sbNextId]
           ok == ~made.type_error /\ SbConstraints(row, sb)
       IN  /\ sb' = IF ok THEN sb \cup {row} ELSE sb
           /\ sbNextId' = IF ok THEN sbNextId + 1 ELSE sbNextId
           /\ cache' = IF ok THEN CacheDeleteMany(SbInvalidatedKeys(row.cell)) ELSE cache
           /\ req' = [req EXCEPT ![p] =
                         IF made.type_error
                         THEN Response("sb_bulk_create", "type_error",
                                       req[p].user, b.items, k)
                         ELSE IF ~ok
                         THEN Response("sb_bulk_create", "integrity_error",
                                       req[p].user, b.items, k)
                         ELSE IF k + 1 = BulkLength(b.items)
                         THEN Response("sb_bulk_create", "ok",
                                       req[p].user, b.items, k + 1)
                         ELSE [req[p] EXCEPT !.k = k + 1]]
    /\ UNCHANGED <<fc, fcNextId, usr, kpi, kpiNextId>>

(***************************************************************************)
(*                             KPI METRICS                                 *)
(***************************************************************************)

\* The period every stored entry was created in, and the periods the
\* calculation is asked for.
CurrentPeriod == "2026-11-01"

Periods == {CurrentPeriod, "2026-10-01"}

\* total_sales: Sum(total_amount) over the approved budget entries created
\* in the period, or 0.
TotalSales(period_date) ==
    IF period_date = CurrentPeriod
    THEN SumOf({r \in sb : r.status = "approved"}, "total_amount")
    ELSE 0

\* accuracy_percentage = max(0, 100 - abs(Avg(amount_variance_percentage)))
\* over the latest approved forecast entries created in the period, in
\* hundredths of a percent.
AccuracyPercentage(period_date) ==
    LET rows == IF period_date = CurrentPeriod
                THEN {r \in fc : r.is_latest /\ r.status = "approved"}
                ELSE {}
        avg == IF rows = {} THEN 0
               ELSE RoundHalfEven(Abs(SumOf(rows, "avp")), Cardinality(rows))
    IN  Max(0, 10000 - avg)

\* The UniqueConstraint unique_kpi_metric: SQL compares NULL as distinct from
\* NULL, so two rows collide only when the six columns are equal and none
\* of the dimensions is NULL.
KpiConstraints(r, others) ==
    \A o \in others :
        ~(/\ o.metric_type = r.metric_type
          /\ o.period_type = r.period_type
          /\ o.period_date = r.period_date
          /\ o.dimension_customer = r.dimension_customer
          /\ o.dimension_item = r.dimension_item
          /\ o.dimension_salesperson = r.dimension_salesperson
          /\ r.dimension_customer # NULL
          /\ r.dimension_item # NULL
          /\ r.dimension_salesperson # NULL)

\* The rows the lookup of update_or_create matches: metric_type, period_type
\* and period_date.
KpiMatching(metric_type, period_type, period_date) ==
    {r \in kpi : /\ r.metric_type = metric_type
                 /\ r.period_type = period_type
                 /\ r.period_date = period_date}

\* The value calculate_sales_metrics stores for a metric.
KpiValue(metric_type, period_date) ==
    IF metric_type = "sales_total" THEN TotalSales(period_date)
    ELSE AccuracyPercentage(period_date)

\* The metric a call goes on with after it has stored metric_type.
KpiAfter(p, metric_type) ==
    IF metric_type = "sales_total"
    THEN [req[p] EXCEPT !.pc = "kpi_get", !.metric_type = "forecast_accuracy"]
    ELSE Response("calculate_sales_metrics", "ok", NULL, req[p].period_date, 0)

\* KPIMetric.calculate_sales_metrics(period_date, period_type) is called:
\* the sales total comes first.
KpiCalculate(p, period_date, period_type) ==
    /\ IsIdle(p)
    /\ kpiNextId + 2 * Cardinality({q \in Procs :
                                       req[q].pc \in {"kpi_get", "kpi_create"}})
           + 1 <= MaxKpiId
    /\ req' = [req EXCEPT ![p] =
                  [pc |-> "kpi_get", metric_type |-> "sales_total",
                   period_type |-> period_type, period_date |-> period_date,
                   value |-> 0]]
    /\ UNCHANGED <<fc, fcNextId, sb, sbNextId, cache, usr, kpi, kpiNextId>>

\* The aggregate, then update_or_create's select_for_update().get(): one
\* matching row is updated under its lock, several raise
\* MultipleObjectsReturned, none leads to the INSERT.
KpiGet(p) ==
    /\ req[p].pc = "kpi_get"
    /\ LET r == req[p]
           value == KpiValue(r.metric_type, r.period_date)
           found == KpiMatching(r.metric_type, r.period_type, r.period_date)
       IN  /\ kpi' = IF Cardinality(found) = 1
                     THEN {IF o \in found THEN [o EXCEPT !.value = value]
                           ELSE o : o \in kpi}
                     ELSE kpi
           /\ req' = [req EXCEPT ![p] =
                         IF found = {}
                         THEN [r EXCEPT !.pc = "kpi_create", !.value = value]
                         ELSE IF Cardinality(found) = 1
                         THEN KpiAfter(p, r.metric_type)
                         ELSE Response("calculate_sales_metrics",
                                       "multiple_objects_returned", NULL,
                                       r.period_date, 0)]
    /\ UNCHANGED <<fc, fcNextId, sb, sbNextId, cache, usr, kpiNextId>>

\* get_or_create's create: the INSERT of a row without dimensions.  An
\* IntegrityError makes get_or_create read the row again.
KpiCreate(p) ==
    /\ req[p].pc = "kpi_create"
    /\ LET r == req[p]
           row == [id |-> kpiNextId, metric_type |-> r.metric_type,
                   period_type |-> r.period_type,
                   period_date |-> r.period_date, value |-> r.value,
                   dimension_customer |-> NULL, dimension_item |-> NULL,
                   dimension_salesperson |-> NULL]
           ok == KpiConstraints(row, kpi)
       IN  /\ kpi' = IF ok THEN kpi \cup {row} ELSE kpi
           /\ kpiNextId' = IF ok THEN kpiNextId + 1 ELSE kpiNextId
           /\ req' = [req EXCEPT ![p] =
                         IF ok THEN KpiAfter(p, r.metric_type)
                         ELSE [r EXCEPT !.pc = "kpi_get"]]
    /\ UNCHANGED <<fc, fcNextId, sb, sbNextId, cache, usr>>

Init ==
    /\ fc = {}
    /\ fcNextId = 1
    /\ sb = {}
    /\ sbNextId = 1
    /\ req = [p \in Procs |-> Idle]
    /\ cache = {}
    /\ usr = [u \in Users |-> [role |-> u, department |-> "d0"]]
    /\ kpi = {}
    /\ kpiNextId = 1

FcIds == 1..MaxFcId

NextReturn(P) == \E p \in P : Return(p)

\* The forecast create requests of the workers P for the users U with
\* payloads from Data.
NextFcCreate(P, U, Data) ==
    \E p \in P :
        \/ \E u \in U, c \in FcCells, d \in Data : FcCreate(p, u, c, d)
        \/ FcRelatch(p)
        \/ FcInsert(p)

\* The forecast update requests of the workers P for the users U.
NextFcUpdate(P, U) ==
    \E p \in P :
        \/ \E u \in U, id \in FcIds, patch \in FcPatches :
               FcUpdateCheck(p, u, id, patch)
        \/ FcUpdateSave(p)

\* The forecast delete requests of the workers P for the users U.
NextFcDelete(P, U) ==
    \E p \in P :
        \/ \E u \in U, id \in FcIds : FcDeleteCheck(p, u, id)
        \/ FcDelete(p)

\* One client issuing forecast creates, updates and deletes one after another.
NextForecast ==
    \/ NextFcCreate({"w1"}, Users, FcData1)
    \/ NextFcUpdate({"w1"}, Users)
    \/ NextFcDelete({"w1"}, Users)
    \/ NextReturn({"w1"})

SpecForecast == Init /\ [][NextForecast]_vars

\* Two clients of one manager creating and deleting forecast entries
\* concurrently.
NextForecastConc ==
    \/ NextFcCreate(Procs, {"manager"}, FcValidData)
    \/ NextFcDelete(Procs, {"manager"})
    \/ NextReturn(Procs)

SpecForecastConc == Init /\ [][NextForecastConc]_vars

\* One client issuing valid forecast creates only, one after another.
NextForecastSeq ==
    \/ NextFcCreate({"w1"}, Users, FcValidData)
    \/ NextReturn({"w1"})

SpecForecastSeq == Init /\ [][NextForecastSeq]_vars

SbIds == 1..MaxSbId

\* Inputs of a bulk-create: the item list, the annual total in cents, the
\* distribution type.
BulkItems == {<<>>, <<"i1">>, <<"i1", "i2">>}

BulkTotals == {1000}

BulkDistributions == {"equal", "seasonal"}

NextSbCreate(P, U, Data) ==
    \E p \in P :
        \/ \E u \in U, c \in SbCells, d \in Data : SbCreate(p, u, c, d)
        \/ SbInsert(p)

NextSbUpdate(P, U, Patches) ==
    \E p \in P :
        \/ \E u \in U, id \in SbIds, patch \in Patches :
               SbUpdateCheck(p, u, id, patch)
        \/ SbUpdateSave(p)

NextSbDelete(P, U) ==
    \E p \in P :
        \/ \E u \in U, id \in SbIds : SbDeleteCheck(p, u, id)
        \/ SbDelete(p)

NextSbApprove(P, U) ==
    \E p \in P, u \in U, ids \in SUBSET SbIds : SbApprove(p, u, ids)

NextSbBulk(P, U, ItemLists) ==
    \E p \in P :
        \/ \E u \in U, items \in ItemLists, total \in BulkTotals,
              dist \in BulkDistributions : SbBulkCreate(p, u, items, total, dist)
        \/ SbBulkInsert(p)

NextSbSeasonal(P) == \E p \in P, id \in SbIds : SbApplySeasonal(p, id)

\* One client of the admin issuing budget requests one after another: the
\* arithmetic of the stored rows.
NextBudget ==
    \/ NextSbCreate({"w1"}, {"admin"}, SbData)
    \/ NextSbUpdate({"w1"}, {"admin"}, SbDataPatches)
    \/ NextSbDelete({"w1"}, {"admin"})
    \/ NextSbBulk({"w1"}, {"admin"}, BulkItems)
    \/ NextSbSeasonal({"w1"})
    \/ NextReturn({"w1"})

SpecBudget == Init /\ [][NextBudget]_vars

SbData1 == {d \in SbData : d.quantity = 150}

\* One client issuing budget requests for every role one after another: the
\* approval workflow.
NextBudgetFlow ==
    \/ NextSbCreate({"w1"}, Users, SbData1)
    \/ NextSbUpdate({"w1"}, Users,
                    SbStatusPatches \cup {[quantity |-> 33], [quantity |-> -100]})
    \/ NextSbDelete({"w1"}, Users)
    \/ NextSbApprove({"w1"}, Users)
    \/ NextReturn({"w1"})

SpecBudgetFlow == Init /\ [][NextBudgetFlow]_vars

SbValidData == {d \in SbData : d.quantity >= 0}

\* Two clients of one manager working concurrently: both create single
\* entries, the first also bulk-creates, the second also moves and deletes
\* entries.
NextBudgetConc ==
    \/ NextSbCreate(Procs, {"manager"}, SbValidData)
    \/ NextSbUpdate({"w2"}, {"manager"}, SbCellPatches)
    \/ NextSbDelete({"w2"}, {"manager"})
    \/ NextSbBulk({"w1"}, {"manager"}, {<<"i1">>})
    \/ NextReturn(Procs)

SpecBudgetConc == Init /\ [][NextBudgetConc]_vars

\* Status changes through the forecast detail view.
FcStatusPatches == {[status |-> "submitted"], [status |-> "rejected"]}

NextFcStatus(P, U) ==
    \E p \in P :
        \/ \E u \in U, id \in FcIds, patch \in FcStatusPatches :
               FcUpdateCheck(p, u, id, patch)
        \/ FcUpdateSave(p)

\* The forecast create requests of the workers P on the cells Cells.
NextFcCreateIn(P, U, Cells, Data) ==
    \E p \in P :
        \/ \E u \in U, c \in Cells, d \in Data : FcCreate(p, u, c, d)
        \/ FcRelatch(p)
        \/ FcInsert(p)

NextFcApprove(P, U) ==
    \E p \in P, u \in U, ids \in SUBSET FcIds : FcApprove(p, u, ids)

\* One client of a manager and of a salesperson creating budget and forecast
\* entries, changing their status and bulk-approving them.
NextApprove ==
    \/ NextSbCreate({"w1"}, {"manager"}, SbData1)
    \/ NextSbUpdate({"w1"}, {"manager"},
                    {[status |-> "submitted"], [status |-> "rejected"]})
    \/ NextSbApprove({"w1"}, {"manager", "salesperson"})
    \/ NextFcCreateIn({"w1"}, {"manager"}, {Cell("c1", "i1", ThisYear, 1)},
                      FcData1 \cap FcValidData)
    \/ NextFcStatus({"w1"}, {"manager"})
    \/ NextFcApprove({"w1"}, {"manager", "salesperson"})
    \/ NextReturn({"w1"})

SpecApprove == Init /\ [][NextApprove]_vars

\* Payloads of a forecast create with zero, positive and negative budget
\* baselines (budget_quantity and budget_amount carry no validation and no
\* table constraint).
FcVarianceData ==
    { [fq |-> q, fa |-> 100 * q, bq |-> b, ba |-> 100 * b] :
          q \in {50, 95, 150}, b \in {-100, 0, 100} }

NextFcAnalysis(P, U) == \E p \in P, u \in U : FcVarianceAnalysis(p, u)

NextCacheExpire == \E e \in cache : CacheExpire(e.key)

\* One client creating forecast entries over every kind of baseline and
\* asking for the variance analysis.
NextVariance ==
    \/ NextFcCreate({"w1"}, {"manager"}, FcVarianceData)
    \/ NextFcAnalysis({"w1"}, {"manager"})
    \/ NextCacheExpire
    \/ NextReturn({"w1"})

SpecVariance == Init /\ [][NextVariance]_vars

NextSbAggregates(P) ==
    \E p \in P :
        \/ SbGetAnnualSummary(p, ThisYear)
        \/ \E c \in {None} \cup Customers, i \in {None} \cup Items :
               SbGetMonthlyTotals(p, ThisYear, c, i)

\* One client creating, submitting, approving and deleting budget entries
\* and reading the cached aggregates in between.
NextCache ==
    \/ NextSbCreate({"w1"}, {"manager"}, SbData1)
    \/ NextSbUpdate({"w1"}, {"manager"}, {[status |-> "submitted"]})
    \/ NextSbApprove({"w1"}, {"manager"})
    \/ NextSbDelete({"w1"}, {"admin"})
    \/ NextSbAggregates({"w1"})
    \/ NextCacheExpire
    \/ NextReturn({"w1"})

SpecCache == Init /\ [][NextCache]_vars

\* Creates with payloads at and beyond the edges of the valid ranges: a past
\* year, a month that is no month, negative numbers, a discount over 100.
ValidationCells ==
    {Cell("c1", "i1", y, m) : y \in {ThisYear - 1, ThisYear}, m \in {1, 13}}

SbEdgeData ==
    SbData \cup
        { [quantity |-> 150, unit_price |-> -300, discount_percentage |-> 0],
          [quantity |-> 150, unit_price |-> 300, discount_percentage |-> 150] }

NextSbCreateIn(P, U, Cells, Data) ==
    \E p \in P :
        \/ \E u \in U, c \in Cells, d \in Data : SbCreate(p, u, c, d)
        \/ SbInsert(p)

NextValidation ==
    \/ NextSbCreateIn({"w1"}, {"manager"}, ValidationCells, SbEdgeData)
    \/ NextFcCreateIn({"w1"}, {"manager"}, ValidationCells, FcData)
    \/ NextReturn({"w1"})

SpecValidation == Init /\ [][NextValidation]_vars

\* User updates by every user on every user, one request at a time.
NextUserUpdate(P, U) ==
    \E p \in P :
        \/ \E u \in U, t \in Users, data \in UserData :
               UserUpdateCheck(p, u, t, data)
        \/ UserUpdateSave(p)

NextUsers ==
    \/ NextUserUpdate({"w1"}, Users)
    \/ NextReturn({"w1"})

SpecUsers == Init /\ [][NextUsers]_vars

PeriodTypes == {"monthly"}

\* Calculations of the KPI metrics by the workers P.
NextKpi(P) ==
    \E p \in P :
        \/ \E period_date \in Periods, period_type \in PeriodTypes :
               KpiCalculate(p, period_date, period_type)
        \/ KpiGet(p)
        \/ KpiCreate(p)

\* Two workers calculate metrics while budget entries are created and
\* approved.
NextMetrics ==
    \/ NextKpi(Procs)
    \/ NextSbCreate({"w1"}, {"manager"}, SbData1)
    \/ NextSbUpdate({"w1"}, {"manager"}, {[status |-> "submitted"]})
    \/ NextSbApprove({"w1"}, {"manager"})
    \/ NextReturn(Procs)

SpecMetrics == Init /\ [][NextMetrics]_vars

\* Payloads of a forecast update that change the forecast and the status.
FcDataPatches == {[fq |-> 200], [status |-> "submitted"]}

NextFcUpdateWith(P, U, Patches) ==
    \E p \in P :
        \/ \E u \in U, id \in FcIds, patch \in Patches :
               FcUpdateCheck(p, u, id, patch)
        \/ FcUpdateSave(p)

NextFcFromBudget(P) ==
    \E p \in P, id \in FcIds, sid \in SbIds : FcUpdateFromBudget(p, id, sid)

\* Forecast entries of one cell are created, updated, aligned with the
\* budget entry and bulk-approved, one request after the other.
NextForecastFlow ==
    \/ NextSbCreateIn({"w1"}, {"manager"}, {Cell("c1", "i1", ThisYear, 1)},
                      SbData1)
    \/ NextFcCreateIn({"w1"}, {"manager"}, {Cell("c1", "i1", ThisYear, 1)},
                      FcData1 \cap FcValidData)
    \/ NextFcUpdateWith({"w1"}, {"manager"}, FcDataPatches)
    \/ NextFcFromBudget({"w1"})
    \/ NextFcApprove({"w1"}, {"manager"})
    \/ NextReturn({"w1"})

SpecForecastFlow == Init /\ [][NextForecastFlow]_vars

\* One client creating forecast entries on the cells and deleting entries,
\* one request after the other.
NextVersions ==
    \/ NextFcCreateIn({"w1"}, {"manager"}, FcCells, FcData1 \cap FcValidData)
    \/ NextFcDelete({"w1"}, {"manager"})
    \/ NextReturn({"w1"})

SpecVersions == Init /\ [][NextVersions]_vars

\* Per-month quantities a caller supplies with a bulk-create, in hundredths.
SuppliedQuantities ==
    { [m \in 1..MonthsInYear |-> 500], [m \in 1..MonthsInYear |-> 100 * m] }

NextSbBulkWith(P, U, ItemLists, Distributions) ==
    \E p \in P :
        \/ \E u \in U, items \in ItemLists, total \in BulkTotals,
              dist \in Distributions, quantities \in SuppliedQuantities :
               SbBulkCreateWith(p, u, items, total, dist, quantities)
        \/ SbBulkInsert(p)

\* One client bulk-creating with the percentage and manual distributions
\* and deleting entries.
NextBulkManual ==
    \/ NextSbBulkWith({"w1"}, {"admin"}, {<<"i1">>, <<"i1", "i2">>},
                      {"percentage", "manual"})
    \/ NextSbDelete({"w1"}, {"admin"})
    \/ NextReturn({"w1"})

SpecBulkManual == Init /\ [][NextBulkManual]_vars

\* Payloads of a budget update that make an entry seasonal, with a
\* multiplier of 0, 0.90 and 1.60, and one that changes the quantity.
SbSeasonalPatches ==
    {[distribution_type |-> "seasonal", seasonal_multiplier |-> m] :
         m \in {0, 90, 160}}
        \cup {[quantity |-> 33]}

\* One client creating entries, making them seasonal and applying the
\* seasonal distribution.
NextSeasonal ==
    \/ NextSbCreate({"w1"}, {"admin"}, SbValidData)
    \/ NextSbUpdate({"w1"}, {"admin"}, SbSeasonalPatches)
    \/ NextSbSeasonal({"w1"})
    \/ NextReturn({"w1"})

SpecSeasonal == Init /\ [][NextSeasonal]_vars

\* One client creating, updating and deleting budget entries and reading
\* the cached aggregates in between.
NextCacheKeys ==
    \/ NextSbCreate({"w1"}, {"manager"}, SbData1)
    \/ NextSbUpdate({"w1"}, {"manager"}, {[status |-> "submitted"]})
    \/ NextSbDelete({"w1"}, {"admin"})
    \/ NextSbAggregates({"w1"})
    \/ NextReturn({"w1"})

SpecCacheKeys == Init /\ [][NextCacheKeys]_vars

\* A manager creates and submits budget and forecast entries; users of
\* every role request bulk-approve.
NextApproveRoles ==
    \/ NextSbCreate({"w1"}, {"manager"}, SbData1)
    \/ NextSbUpdate({"w1"}, {"manager"}, {[status |-> "submitted"]})
    \/ NextSbApprove({"w1"}, Users)
    \/ NextFcCreateIn({"w1"}, {"manager"}, {Cell("c1", "i1", ThisYear, 1)},
                      FcData1 \cap FcValidData)
    \/ NextFcUpdateWith({"w1"}, {"manager"}, {[status |-> "submitted"]})
    \/ NextFcApprove({"w1"}, Users)
    \/ NextReturn({"w1"})

SpecApproveRoles == Init /\ [][NextApproveRoles]_vars

\* A manager's client creates, submits and edits budget entries while a
\* second client of the manager bulk-approves.
NextApproveRace ==
    \/ NextSbCreate({"w1"}, {"manager"}, SbData1)
    \/ NextSbUpdate({"w1"}, {"manager"},
                    {[status |-> "submitted"], [quantity |-> 33]})
    \/ NextSbApprove({"w2"}, {"manager"})
    \/ NextReturn(Procs)

SpecApproveRace == Init /\ [][NextApproveRace]_vars

(***************************************************************************)
(*                              PROPERTIES                                 *)
(***************************************************************************)

AllIdle == \A p \in Procs : IsIdle(p)

LatestRows(c) == {r \in CellRows(c) : r.is_latest}

\* Workers in the middle of a forecast create (between its statements).
FcCreating == {p \in Procs : req[p].pc \in {"fc_relatch", "fc_insert"}}

\* C1: once the requests have returned, every cell that holds forecast
\* entries has exactly one entry with is_latest = TRUE, and that entry has
\* the highest version of the cell.
C1_OneLatestHighestVersion ==
    AllIdle =>
        \A c \in FcCells :
            CellRows(c) # {} =>
                /\ Cardinality(LatestRows(c)) = 1
                /\ \A l \in LatestRows(c), r \in CellRows(c) : r.version <= l.version

\* C2: while a create is in progress on a cell that has entries, the cell
\* shows exactly one is_latest row to every other reader.
C2_RelatchAtomic ==
    \A p \in FcCreating :
        CellRows(req[p].inst.cell) # {} =>
            Cardinality(LatestRows(req[p].inst.cell)) = 1

\* C3: two creates in progress on the same cell never hold the same version
\* number.
C3_DistinctVersions ==
    \A p, q \in FcCreating :
        (p # q /\ req[p].inst.cell = req[q].inst.cell)
            => req[p].inst.version # req[q].inst.version

\* C4 (state part): after n creates in a row on a cell, the cell holds the
\* versions 1..n and only version n is latest.
C4_VersionsOneToN ==
    AllIdle =>
        \A c \in FcCells :
            LET n == Cardinality(CellRows(c))
            IN  /\ {r.version : r \in CellRows(c)} = 1..n
                /\ \A r \in CellRows(c) : r.is_latest <=> (r.version = n)

\* C4 (step part): a create leaves every stored row in place with its
\* forecast data; only is_latest may change.
C4_RowsKept ==
    \A r \in fc : \E k \in fc' : k = [r EXCEPT !.is_latest = k.is_latest]

\* C4: n sequential creates on an empty cell give n rows with the versions
\* 1..n, the earlier rows keep their forecast data, and only the row with
\* version n has is_latest = TRUE.
C4_SequentialCreates == []C4_VersionsOneToN /\ [][C4_RowsKept]_vars

\* Three creates have run on one cell, with different forecast data.
C4_Witness ==
    /\ AllIdle
    /\ \E c \in FcCells :
           /\ Cardinality(CellRows(c)) = 3
           /\ \E r, k \in CellRows(c) : r.fa # k.fa /\ ~r.is_latest /\ k.is_latest

\* Workers whose request finishes in this step.
Finishing == {p \in Procs : req[p].pc # "done" /\ req'[p].pc = "done"}

\* C5: at most one budget entry exists per (customer, item, year, month)
\* cell, whatever creates, bulk-creates, updates and deletes have run and
\* however they interleave.
C5_OneEntryPerCell == \A r, k \in sb : r.cell = k.cell => r = k

\* A bulk-create or an update that moved an entry ran into an occupied cell
\* and was refused by the table, while two cells are occupied.
C5_Witness ==
    /\ Cardinality(sb) >= 2
    /\ \E p \in Procs :
           /\ req[p].pc = "done"
           /\ req[p].op \in {"sb_bulk_create", "sb_update"}
           /\ req[p].result = "integrity_error"

\* A create request finishes in this step on a cell that holds an entry.
SecondCreate(p) ==
    /\ p \in Finishing
    /\ req'[p].op = "sb_create"
    /\ \E r \in sb : r.cell = req'[p].target

\* C6 (as stated): a second create on an occupied cell, after the first or
\* concurrently with it, fails with the conflict error of the uniqueness
\* constraint and leaves the table as it was.
C6_FailsWithConflict ==
    [][\A p \in Procs :
           SecondCreate(p) =>
               /\ req'[p].result = "integrity_error"
               /\ sb' = sb]_vars

\* C6 (amended): a second create on an occupied cell leaves the table as it
\* was; it fails with a validation error when the cell is already occupied as
\* the request is validated, and with the integrity error of the uniqueness
\* constraint when the cell gets occupied between its validation and its
\* insert.
C6_SecondCreateFails ==
    [][\A p \in Procs :
           SecondCreate(p) =>
               /\ sb' = sb
               /\ req'[p].result =
                      IF IsIdle(p) THEN "validation_error" ELSE "integrity_error"]_vars

\* A create lost the race for its cell: it was refused at the insert, and the
\* cell holds the winner's entry.
C6_Witness ==
    \E p \in Procs :
        /\ req[p].pc = "done"
        /\ req[p].op = "sb_create"
        /\ req[p].result = "integrity_error"
        /\ \E r \in sb : r.cell = req[p].target

\* C7: every stored budget entry has total_amount = quantity * unit_price *
\* (1 - discount_percentage / 100), at two decimals, for its stored quantity,
\* unit_price and discount_percentage.
C7_TotalDerived ==
    \A r \in sb :
        r.total_amount =
            RoundHalfEven(SbTotal(r.quantity * Scale, r.unit_price,
                                  r.discount_percentage), Scale)

\* The status transitions of the documented state machine.
AllowedTransitions ==
    { <<"draft", "submitted">>, <<"submitted", "approved">>,
      <<"draft", "rejected">>, <<"submitted", "rejected">> }

\* C8: every entry starts in draft, and a request of a non-admin actor moves
\* the status of an entry only along draft -> submitted, submitted ->
\* approved, draft -> rejected, submitted -> rejected.
C8_StatusTransitions ==
    [][/\ \A k \in sb' : (\A r \in sb : r.id # k.id) => k.status = "draft"
       /\ \A p \in Finishing :
              ~is_admin(req'[p].user) =>
                  \A r \in sb, k \in sb' :
                      (r.id = k.id /\ r.status # k.status)
                          => <<r.status, k.status>> \in AllowedTransitions]_vars

\* C9: every approved entry has approved_by and approved_at set, and no
\* entry has one of the two set without the other.
C9_ApproverStamp ==
    \A r \in sb :
        /\ r.status = "approved" => r.approved_by # NULL /\ r.approved_at # NULL
        /\ r.approved_by = NULL <=> r.approved_at = NULL

\* An update or delete request on entry r finishes in this step.
ModifyRequest(p, r) ==
    /\ p \in Finishing
    /\ req'[p].op \in {"sb_update", "sb_delete"}
    /\ req'[p].target = r.id

FcModifyRequest(p, r) ==
    /\ p \in Finishing
    /\ req'[p].op \in {"fc_update", "fc_delete"}
    /\ req'[p].target = r.id

\* C11 (as stated): an edit or delete of an approved forecast entry by a
\* non-admin fails with the permission error and leaves the forecast table
\* (the entry, and the version and is_latest flags of its cell) unchanged; by
\* an admin it succeeds.
C11_PermissionError ==
    [][\A p \in Procs, r \in fc :
           (FcModifyRequest(p, r) /\ r.status = "approved") =>
               IF is_admin(req'[p].user)
               THEN req'[p].result = "ok"
               ELSE req'[p].result = "permission_denied" /\ fc' = fc]_vars

\* C11 (amended): an edit or delete of an approved forecast entry by a
\* non-admin never succeeds and leaves the forecast table unchanged; it fails
\* with the permission error when the entry is in the actor's queryset and
\* the payload is valid, with not-found when the entry is outside the actor's
\* queryset, and with a validation error when the payload is invalid.  By an
\* admin it succeeds unless the payload is invalid or the written row breaks
\* a table constraint.
C11_ApprovedImmutable ==
    [][\A p \in Procs, r \in fc :
           (FcModifyRequest(p, r) /\ r.status = "approved") =>
               IF is_admin(req'[p].user)
               THEN /\ req'[p].result \in {"ok", "validation_error", "integrity_error"}
                    /\ req'[p].result # "ok" => fc' = fc
               ELSE /\ fc' = fc
                    /\ req'[p].result \in
                           {"permission_denied", "not_found", "validation_error"}
                    /\ req'[p].result = "not_found" <=> ~Visible(req'[p].user, r)]_vars

\* A salesperson's request on an approved forecast entry of a cell with two
\* versions was refused with the permission error.
C11_Witness ==
    \E p \in Procs :
        /\ req[p].pc = "done"
        /\ req[p].op \in {"fc_update", "fc_delete"}
        /\ req[p].result = "permission_denied"
        /\ req[p].user = "salesperson"
        /\ \E r \in fc :
               /\ r.id = req[p].target
               /\ r.status = "approved"
               /\ Cardinality(CellRows(r.cell)) = 2

\* The approve request of worker p, finishing in this step, is one the
\* endpoint accepts: a non-empty list from an actor who may approve.
Approving(p, o) ==
    /\ p \in Finishing
    /\ req'[p].op = o
    /\ req'[p].target # {}
    /\ can_manage_users(req'[p].user)

\* The effect of a bulk-approve of the entries ids on table rows, giving
\* rows2 and the count n: the listed submitted entries become approved, every
\* other entry is left as it is, and n is the number of entries moved.
ApprovedExactly(rows, rows2, ids, n) ==
    LET hit == {r \in rows : r.id \in ids /\ r.status = "submitted"}
    IN  /\ n = Cardinality(hit)
        /\ {r.id : r \in rows2} = {r.id : r \in rows}
        /\ \A r \in rows \ hit : r \in rows2
        /\ \A r \in hit : \E k \in rows2 : k.id = r.id /\ k.status = "approved"

\* C12: a bulk-approve of budget or forecast entries moves exactly the listed
\* entries that are submitted to approved, leaves every other entry
\* unchanged, answers without an error and returns the number of entries it
\* moved.
C12_BulkApprove ==
    [][\A p \in Procs :
           /\ Approving(p, "sb_approve") =>
                  /\ req'[p].result = "ok"
                  /\ ApprovedExactly(sb, sb', req'[p].target, req'[p].count)
                  /\ fc' = fc
           /\ Approving(p, "fc_approve") =>
                  /\ req'[p].result = "ok"
                  /\ ApprovedExactly(fc, fc', req'[p].target, req'[p].count)
                  /\ sb' = sb]_vars

\* A bulk-approve of three forecast entries, one draft, one submitted and one
\* already approved, returned the count 1; a budget entry was bulk-approved
\* too.
C12_Witness ==
    /\ \E p \in Procs :
           /\ req[p].pc = "done"
           /\ req[p].op = "fc_approve"
           /\ req[p].result = "ok"
           /\ req[p].count = 1
           /\ Cardinality(req[p].target) = 3
           /\ {r.status : r \in {k \in fc : k.id \in req[p].target}}
                  = {"draft", "approved"}
           /\ Cardinality({k \in fc : k.id \in req[p].target
                                       /\ k.status = "approved"
                                       /\ k.approved_by = "manager"}) = 2
    /\ \E r \in sb : r.status = "approved" /\ r.approved_by = "manager"

\* The rows the bulk-create request that worker p has just finished inserted:
\* the response's count is len(created_entries), and a single client's
\* inserts take consecutive primary keys.
BatchRows(p) == {r \in sb : r.id >= sbNextId - req[p].count}

\* C13: a bulk-create that fails on one of its records has persisted none of
\* the records of the batch.
C13_AllOrNothing ==
    \A p \in Procs :
        (req[p].pc = "done" /\ req[p].op = "sb_bulk_create"
             /\ req[p].result # "ok")
            => BatchRows(p) = {}

\* Worker p has just finished a bulk-create with the result res.
BulkDone(p, res) ==
    /\ req[p].pc = "done"
    /\ req[p].op = "sb_bulk_create"
    /\ req[p].result = res

\* C14 (state part): a successful bulk-create has inserted 12 * |items| rows
\* and reports that count; they are one draft row for every (item, month) of
\* the request.
C14_OnePerItemAndMonth ==
    \A p \in Procs :
        BulkDone(p, "ok") =>
            LET items == req[p].target
                cells == {Cell("c1", items[j], ThisYear, m) :
                              j \in 1..Len(items), m \in 1..12}
            IN  /\ req[p].count = 12 * Len(items)
                /\ Cardinality(BatchRows(p)) = req[p].count
                /\ {r.cell : r \in BatchRows(p)} = cells
                /\ Cardinality(cells) = 12 * Len(items)
                /\ \A r \in BatchRows(p) : r.status = "draft"

\* C14 (step part): a bulk-create with an empty item list is refused with a
\* validation error and creates nothing.
C14_EmptyRejected ==
    \A p \in Finishing :
        (req'[p].op = "sb_bulk_create" /\ req'[p].target = <<>>)
            => req'[p].result = "validation_error" /\ sb' = sb

\* C14: a successful bulk-create produces exactly 12 * |items| entries, one
\* per (item, month) with month in 1..12, all draft, and reports that count;
\* an empty item list is rejected with a validation error and creates
\* nothing.
C14_BulkCreateShape == []C14_OnePerItemAndMonth /\ [][C14_EmptyRejected]_vars

\* A bulk-create of two items has succeeded with 24 rows.
C14_Witness ==
    \E p \in Procs :
        /\ BulkDone(p, "ok")
        /\ Len(req[p].target) = 2
        /\ Cardinality(BatchRows(p)) = 24

\* (a - b) / b * 100 in hundredths of a percent, 0 when b = 0.
PercentageOf(a, b) ==
    IF b = 0 THEN 0
    ELSE IF b > 0 THEN RoundHalfEven((a - b) * 10000, b)
    ELSE RoundHalfEven((b - a) * 10000, 0 - b)

\* C15: the quantity and amount variance percentages stored on a forecast
\* entry are 0 when the baseline is 0 and (actual - baseline) / baseline * 100
\* for every other baseline, negative ones included.
C15_VariancePercentage ==
    \A r \in fc :
        /\ r.qvp = PercentageOf(r.fq, r.bq)
        /\ r.avp = PercentageOf(r.fa, r.ba)

\* max(0, 100 - |f - b| / b * 100) in hundredths for b > 0, and 0 otherwise.
ExpectedAccuracy(f, b) ==
    IF b > 0
    THEN LET x == RoundHalfEven(100 * 100 * b - Abs(f - b) * 100 * 100, b)
         IN  IF x < 0 THEN 0 ELSE x
    ELSE 0

\* C16: the accuracy score of a variance analysis is max(0, 100 - |f - b| / b
\* * 100) of its totals f and b when b > 0 and 0 otherwise; it lies in
\* [0, 100], and forecasting over and under the budget by the same amount
\* gives the same score.
C16_AccuracyScore ==
    \A p \in Procs :
        (req[p].pc = "done" /\ req[p].op = "fc_variance_analysis") =>
            LET f == req[p].count.total_forecast_amount
                b == req[p].count.total_budget_amount
                score == req[p].count.accuracy_score
            IN  /\ score = ExpectedAccuracy(f, b)
                /\ score >= 0 /\ score <= 100 * 100
                /\ score = accuracy_score(b + (b - f), b)

\* An analysis whose forecast total is three times its budget total got the
\* score 0.
C16_Witness ==
    \E p \in Procs :
        /\ req[p].pc = "done"
        /\ req[p].op = "fc_variance_analysis"
        /\ req[p].count.total_budget_amount > 0
        /\ req[p].count.total_forecast_amount = 3 * req[p].count.total_budget_amount
        /\ req[p].count.accuracy_score = 0

\* The value a recomputation over the stored budget entries gives for a
\* cache key of the budget aggregates.
FreshValue(key) ==
    IF key.name = "annual_summary" THEN AnnualSummary(key.year)
    ELSE MonthlyTotals(key.year, key.a, key.b)

\* C17: a read of a cached budget aggregate returns the value a fresh
\* recomputation over the stored entries would return.
C17_ReadsFresh ==
    \A p \in Procs :
        (req[p].pc = "done"
             /\ req[p].op \in {"sb_annual_summary", "sb_monthly_totals"})
            => req[p].count = FreshValue(req[p].target)

\* The payloads the specification calls invalid.
SbInvalidEntry(inst) ==
    \/ inst.quantity < 0
    \/ inst.unit_price < 0
    \/ inst.discount_percentage > 100
    \/ inst.cell.month \notin 1..12
    \/ inst.cell.year < ThisYear

FcInvalidEntry(inst) ==
    \/ inst.fq < 0
    \/ inst.fa < 0
    \/ inst.cell.month \notin 1..12
    \/ inst.cell.year < ThisYear

\* C18: a create whose payload has a negative quantity, a negative unit
\* price (or forecast amount), a discount over 100, a month outside 1..12 or
\* a past year ends in a validation error and stores no entry.
C18_InvalidRejected ==
    [][\A p \in Procs :
          (/\ req'[p].pc = "done"
           /\ \/ req[p].pc = "sb_insert" /\ SbInvalidEntry(req[p].inst)
              \/ req[p].pc = "fc_insert" /\ FcInvalidEntry(req[p].inst))
              => /\ req'[p].result = "validation_error"
                 /\ sb' = sb
                 /\ fc' = fc]_vars

\* The INSERT of the forecast create in flight at worker p will be refused
\* by the table over the rows `rows`.
FcCreateWillFail(p, rows) ==
    ~FcConstraints([req[p].inst EXCEPT !.id = fcNextId], rows)

\* C19: an operation that ends in an error has written nothing: no step of
\* a forecast create changes the stored entries, the is_latest flags of the
\* versions of the cell included, when the create goes on to fail.
C19_FailsBeforeWriting ==
    [][\A p \in Procs :
          (req[p].pc = "fc_relatch" /\ FcCreateWillFail(p, FcRelatchRows(fc, req[p].inst.cell)))
              => (req'[p] = req[p] \/ fc' = fc)]_vars

\* The update in flight at worker p is an attempt to change a role by a
\* caller without admin rights.
RoleChangeAttempt(p) ==
    /\ req[p].pc = "user_save"
    /\ "role" \in DOMAIN req[p].data
    /\ req[p].data.role # req[p].instance.role
    /\ ~req[p].admin

\* The step changes no stored role.
RolesKept == \A t \in Users : usr'[t].role = usr[t].role

\* C20: an attempt to change a role, the caller's own or another user's,
\* by a caller without admin rights changes no stored role and ends in an
\* error.
C20_RoleChangeRefused ==
    [][\A p \in Procs :
          (RoleChangeAttempt(p) /\ req'[p].pc = "done")
              => (RolesKept /\ req'[p].result # "ok")]_vars

\* C21: at most one KPI metric row exists for a metric type, period type,
\* period date and dimensions, the global row without dimensions included.
C21_OneRowPerMetric ==
    \A r, o \in kpi :
        (/\ o.metric_type = r.metric_type
         /\ o.period_type = r.period_type
         /\ o.period_date = r.period_date
         /\ o.dimension_customer = r.dimension_customer
         /\ o.dimension_item = r.dimension_item
         /\ o.dimension_salesperson = r.dimension_salesperson)
            => o.id = r.id

\* C22: every stored forecast entry has quantity_variance =
\* forecasted_quantity - budget_quantity and amount_variance =
\* forecasted_amount - budget_amount.
C22_VariancesDerived ==
    \A r \in fc : r.qv = r.fq - r.bq /\ r.av = r.fa - r.ba

\* An approved entry whose forecast was changed and whose baseline came from
\* the budget entry.
C22_Witness ==
    \E r \in fc, b \in sb :
        /\ r.status = "approved"
        /\ r.fq = 200
        /\ r.bq = b.quantity /\ r.ba = b.total_amount
        /\ r.qv = 50
        /\ r.av # 0

\* C23: the version a forecast create gives its entry is 1 on an empty cell
\* and otherwise greater than the version of every entry stored for the
\* cell, also after deletes.
C23_VersionsMonotonic ==
    [][\A p \in Procs :
          (IsIdle(p) /\ req'[p].pc \in {"fc_relatch", "fc_insert"})
              => LET inst == req'[p].inst
                 IN  /\ CellRows(inst.cell) = {} => inst.version = 1
                     /\ \A r \in CellRows(inst.cell) : inst.version > r.version]_vars

\* The multiplier the specification gives month m under a distribution, in
\* hundredths.
ExpectedMultiplier(dist, m) ==
    IF dist = "seasonal" THEN SeasonalMultipliers[m] ELSE 100

\* baseQuantity times the multiplier, in hundredths.
ExpectedQuantity(b, item, m) ==
    LET base == BaseQuantity(AmountPerItem(b.total_amount, b.items),
                             ItemPrice(item))
    IN  RoundHalfEven(base * ExpectedMultiplier(b.distribution_type, m),
                      100 * Scale)

\* C24: every iteration of a budget bulk-create on a free cell stores an
\* entry for its item and month whose quantity is baseQuantity times the
\* multiplier of the month (1 for equal, the seasonal table for seasonal)
\* and whose seasonal_multiplier is that multiplier.
C24_BulkQuantities ==
    [][\A p \in Procs :
          (req[p].pc = "sb_bulk" /\ req'[p] # req[p])
              => LET b == req[p].b
                     n == Len(b.items)
                     m == (req[p].k \div n) + 1
                     item == b.items[(req[p].k % n) + 1]
                     c == Cell(b.customer, item, b.year, m)
                 IN  (\A r \in sb : r.cell # c)
                         => \E row \in sb' \ sb :
                               /\ row.cell = c
                               /\ row.seasonal_multiplier =
                                      ExpectedMultiplier(b.distribution_type, m)
                               /\ row.quantity = ExpectedQuantity(b, item, m)]_vars

\* C25: under the percentage and manual distributions every iteration of a
\* budget bulk-create on a free cell stores the quantity the caller supplied
\* for the month.
C25_SuppliedQuantities ==
    [][\A p \in Procs :
          (/\ req[p].pc = "sb_bulk"
           /\ req'[p] # req[p]
           /\ req[p].b.distribution_type \in {"percentage", "manual"}
           /\ req[p].data.quantities # <<>>)
              => LET b == req[p].b
                     n == Len(b.items)
                     m == (req[p].k \div n) + 1
                     item == b.items[(req[p].k % n) + 1]
                     c == Cell(b.customer, item, b.year, m)
                 IN  (\A r \in sb : r.cell # c)
                         => \E row \in sb' \ sb :
                               /\ row.cell = c
                               /\ row.quantity = req[p].data.quantities[m]]_vars

\* Worker p has just applied the seasonal distribution.
SeasonalDone(p) ==
    req[p].pc = "done" /\ req[p].op = "sb_apply_seasonal"

\* C26: the entry apply_seasonal_distribution has just saved is left with
\* the same quantity and total_amount by another call, as long as its
\* seasonal_multiplier is the same.
C26_SeasonalIdempotent ==
    \A p \in Procs :
        SeasonalDone(p) =>
            \A r \in sb :
                r.id = req[p].target =>
                    /\ SeasonalApplied(r).quantity = r.quantity
                    /\ SeasonalApplied(r).total_amount = r.total_amount

\* The distribution was applied to an entry with quantity 0.33 and
\* multiplier 0.90, and to one whose multiplier 0 took its quantity to 0.
C26_Witness ==
    \E p \in Procs :
        /\ SeasonalDone(p)
        /\ \E r \in sb :
              /\ r.id = req[p].target
              /\ r.seasonal_multiplier = 90
              /\ r.quantity = 33
        /\ \E k \in sb : k.seasonal_multiplier = 0 /\ k.quantity = 0

\* The cells of the budget entries that worker p's step saves or deletes
\* through the model instance.
SbWrittenCells(p) ==
    IF req[p].pc \in {"sb_insert", "sb_save"} THEN {r.cell : r \in sb' \ sb}
    ELSE IF req[p].pc = "sb_delete" THEN {r.cell : r \in sb \ sb'}
    ELSE {}

\* C27 as stated: a write to the entry of customer C, item I, year Y leaves
\* the customer-only key (C, no item) of year Y in the cache.
C27_CustomerKeyKept ==
    [][\A p \in Procs :
          \A c \in SbWrittenCells(p) :
              \A e \in cache :
                  e.key = CacheKey("monthly_totals", c.year, c.customer, None)
                      => e \in cache']_vars

\* The key belongs to an aggregate of the year of cell c that the entry of c
\* can be part of: the annual summary, or the monthly totals without filter,
\* for the customer, for the item, or for both.
CoversCell(key, c) ==
    /\ key.year = c.year
    /\ \/ key.name = "annual_summary"
       \/ /\ key.name = "monthly_totals"
          /\ key.a \in {None, c.customer}
          /\ key.b \in {None, c.item}

\* C27: a create, update or delete of the entry of customer C, item I, year
\* Y removes from the cache the annual summary of Y and the monthly totals
\* of Y under the no-filter, customer-only, item-only and (C, I) keys, and
\* nothing else.
C27_InvalidatedKeys ==
    [][\A p \in Procs :
          \A c \in SbWrittenCells(p) :
              /\ cache' \subseteq cache
              /\ \A e \in cache : e \in cache' <=> ~CoversCell(e.key, c)]_vars

\* An entry of item i1 has just been created while the totals of the
\* customer's other item were cached: they are still cached, the customer-only
\* totals are not.
C27_Witness ==
    /\ req["w1"].pc = "done"
    /\ req["w1"].op = "sb_create"
    /\ req["w1"].result = "ok"
    /\ req["w1"].target.item = "i1"
    /\ CacheGet(CacheKey("monthly_totals", ThisYear, "c1", "i2")) # {}
    /\ CacheGet(CacheKey("monthly_totals", ThisYear, None, "i2")) # {}
    /\ CacheGet(CacheKey("monthly_totals", ThisYear, "c1", None)) = {}

\* C28: saving an existing forecast entry recomputes its variance fields,
\* inserts no row and leaves every other entry as it is, version and
\* is_latest included.
C28_SaveKeepsVersions ==
    [][\A p \in Procs :
          (req[p].pc = "fc_save" /\ req'[p].pc = "done"
               /\ req'[p].result = "ok")
              => LET id == req[p].inst.id
                 IN  /\ {r.id : r \in fc'} = {r.id : r \in fc}
                     /\ \A r \in fc : r.id # id => r \in fc'
                     /\ \A r \in fc' :
                           r.id = id => /\ r.qv = r.fq - r.bq
                                        /\ r.av = r.fa - r.ba]_vars

\* An older version of a cell has just been saved with a new forecasted
\* quantity and variance while a later version is the latest one.
C28_Witness ==
    \E p \in Procs :
        /\ req[p].pc = "done"
        /\ req[p].op = "fc_update"
        /\ req[p].result = "ok"
        /\ \E r, k \in fc :
              /\ r.id = req[p].target
              /\ r.fq = 200 /\ r.qv = 100
              /\ ~r.is_latest
              /\ k.cell = r.cell /\ k.version > r.version /\ k.is_latest

\* Worker p answers a bulk-approve in this step.
BulkApproveStep(p) ==
    /\ IsIdle(p)
    /\ req'[p].pc = "done"
    /\ req'[p].op \in {"sb_approve", "fc_approve"}

\* C29: a bulk-approve requested by a user whose role is neither admin nor
\* manager changes no budget and no forecast entry, whatever IDs it names,
\* and is answered with a permission error when it names any; an entry that
\* a bulk-approve moves to approved is approved by an admin or a manager.
C29_ApproversOnly ==
    [][\A p \in Procs :
          BulkApproveStep(p) =>
              LET u == req'[p].user
              IN  /\ RoleOf(u) \notin {"admin", "manager"} =>
                        /\ sb' = sb
                        /\ fc' = fc
                        /\ req'[p].target # {} => req'[p].result = "forbidden"
                  /\ \A r \in (sb' \ sb) \cup (fc' \ fc) :
                        /\ r.status = "approved"
                        /\ r.approved_by = u
                        /\ RoleOf(u) \in {"admin", "manager"}]_vars

\* A salesperson and a viewer have been refused the bulk-approve of a
\* submitted budget entry and of a submitted forecast entry.
C29_Witness ==
    \E p \in Procs :
        /\ req[p].pc = "done"
        /\ req[p].result = "forbidden"
        /\ \/ /\ req[p].op = "sb_approve"
              /\ req[p].user = "salesperson"
              /\ \E r \in sb : r.id \in req[p].target /\ r.status = "submitted"
              /\ \E r \in fc : r.status = "approved"
           \/ /\ req[p].op = "fc_approve"
              /\ req[p].user = "viewer"
              /\ \E r \in fc : r.id \in req[p].target /\ r.status = "submitted"
              /\ \E r \in sb : r.status = "approved"

\* C30: the write of a non-admin's update leaves every approved budget
\* entry as it is, also when the entry was approved after the update's
\* status check: status, approved_by and approved_at stay.
C30_ApprovalKept ==
    [][\A p \in Procs :
          (req[p].pc = "sb_save" /\ ~is_admin(req[p].user))
              => \A r \in sb : r.status = "approved" => r \in sb']_vars

====
